---- MODULE Spec2Model ----
(***************************************************************************)
(* A model of the home inventory server (src/main.py, src/models.py,       *)
(* src/schemas.py): the SQLite database behind the ORM (tables items,      *)
(* tags, item_tags, the FTS5 table items_fts and its three triggers), the  *)
(* static images directory, and one action per request handler.            *)
(*                                                                         *)
(* Conventions.  An Optional value is a sequence: None is <<>> and a value *)
(* v is <<v>>.  A text (an item name, a comment, a file name, a query) is  *)
(* a sequence of one-character strings, so that the suffix of a file name  *)
(* and the tokens of a text are computed and not assumed.  The database is *)
(* the SQLite file of models.py:5, which outlives the process: a           *)
(* specification's Init draws its content from a bounded set of            *)
(* databases.  SQLite does not enforce the declared foreign keys (the      *)
(* engine of models.py:6 never issues PRAGMA foreign_keys=ON).             *)
(***************************************************************************)
EXTENDS Integers, Sequences, FiniteSets, TLC

VARIABLES
  pc,         \* "boot" before lifespan ran create_fts_search_table, then "serving"
  items,      \* table items: item_id -> row
  tags,       \* table tags: tag_id -> tag_name
  item_tags,  \* table item_tags: set of <<item_id, tag_id>>
  tables,     \* names of the tables of the database beyond the mapped ones
  triggers,   \* names of the triggers of the database
  items_fts,  \* table items_fts: rowid -> [name, comment]
  files,      \* files of the static directory
  uploads,    \* number of uuid4 file names drawn so far
  unlinked,   \* the item_tags rows the last request's transaction deleted
  now,        \* the database clock, in seconds (CURRENT_TIMESTAMP)
  req,        \* the request handled last
  resp        \* its response

vars == <<pc, items, tags, item_tags, tables, triggers, items_fts, files, uploads, unlinked, now, req, resp>>

-----------------------------------------------------------------------------
(* Bounds of the model *)

MaxId == 2
MaxClock == 1
MaxUploads == 1

-----------------------------------------------------------------------------
(* Values *)

None == <<>>
Some(v) == <<v>>

Max(S) == CHOOSE m \in S : \A x \in S : x <= m

\* str.rfind, 1-based, 0 when the character does not occur
RFind(s, c) ==
  LET I == {i \in 1..Len(s) : s[i] = c}
  IN IF I = {} THEN 0 ELSE Max(I)

\* A variant of Suffix without its upper bound: a trailing dot counts as a suffix.
SuffixAnyDot(name) ==
  LET i == RFind(name, ".")
  IN IF 0 < i THEN SubSeq(name, i, Len(name)) ELSE <<>>

\* pathlib's Path(name).suffix for a name without a separator: from the last
\* dot on, unless that dot is the first or the last character
Suffix(name) ==
  LET i == RFind(name, ".")
  IN IF 1 < i /\ i < Len(name) THEN SubSeq(name, i, Len(name)) ELSE <<>>

\* the allow-list of create_item and update_item
Allowed == { <<".", "j", "p", "g">>, <<".", "j", "p", "e", "g">>, <<".", "p", "n", "g">> }

\* "image and image.filename"
HasUpload(image) == image # None /\ image[1] # <<>>

\* the files one accepted upload writes: uuid4 + extension, and resized_ + it
OrigFile(n, ext) == [id |-> n, ext |-> ext, resized |-> FALSE]
ResizedFile(n, ext) == [id |-> n, ext |-> ext, resized |-> TRUE]

\* A variant of StoredFiles: the original is kept only once the resize went through.
StoredFilesAfterResize(fs, n, ext, resize_ok) ==
  IF resize_ok THEN fs \cup {OrigFile(n, ext), ResizedFile(n, ext)} ELSE fs

\* the directory after an accepted upload: the original is written first,
\* then resize_image writes the derivative, or raises and writes nothing
StoredFiles(fs, n, ext, resize_ok) ==
  IF resize_ok THEN fs \cup {OrigFile(n, ext), ResizedFile(n, ext)}
               ELSE fs \cup {OrigFile(n, ext)}

\* path.relative_to(base_dir).as_posix()
RelPath(f) == [dir |-> "static", file |-> f]

\* SQLite's rowid for an INTEGER PRIMARY KEY without AUTOINCREMENT
NextRowid(ids) == IF ids = {} THEN 1 ELSE Max(ids) + 1

Drop(f, k) == [x \in DOMAIN f \ {k} |-> f[x]]
Put(f, k, v) == [x \in DOMAIN f \cup {k} |-> IF x = k THEN v ELSE f[x]]

-----------------------------------------------------------------------------
(* The full-text index and its triggers *)

FtsRow(row) == [name |-> row.name, comment |-> row.comment]

\* trigger items_ai
items_ai(fts, rowid, new) == Put(fts, rowid, FtsRow(new))

\* trigger items_au
items_au(fts, rowid, new) ==
  IF rowid \in DOMAIN fts THEN [fts EXCEPT ![rowid] = FtsRow(new)] ELSE fts

\* trigger items_ad
items_ad(fts, rowid) == Drop(fts, rowid)

AfterInsert(fts, rowid, new) ==
  IF "items_ai" \in triggers THEN items_ai(fts, rowid, new) ELSE fts
AfterUpdate(fts, rowid, new) ==
  IF "items_au" \in triggers THEN items_au(fts, rowid, new) ELSE fts
AfterDelete(fts, rowid) ==
  IF "items_ad" \in triggers THEN items_ad(fts, rowid) ELSE fts

\* lifespan: create_fts_search_table.  populate_with_existing_data is built
\* (main.py:62-67) and never executed (main.py:97-100 run the other four).
create_fts_search_table ==
  /\ pc = "boot"
  /\ pc' = "serving"
  /\ IF "items_fts" \notin tables
       THEN /\ tables' = tables \cup {"items_fts"}
            /\ items_fts' = << >>
            /\ triggers' = triggers \cup {"items_ai", "items_au", "items_ad"}
       ELSE UNCHANGED <<tables, items_fts, triggers>>
  /\ req' = [op |-> "lifespan"]
  /\ resp' = [status |-> 0, detail |-> ""]
  /\ UNCHANGED <<items, tags, item_tags, files, uploads, now>>
  /\ unlinked' = {}

-----------------------------------------------------------------------------
(* Responses *)

\* a response without a body: the status and the detail of an HTTPException, or
\* of a handler that returns no rows
Reply(status, detail) == [status |-> status, detail |-> detail]
Err(status, detail) == Reply(status, detail)

\* a 200 response; body is a record whose field names the kind of content
Ok(body) == [status |-> 200, detail |-> "", body |-> body]

\* schemas.ItemCreate
ItemCreate(row) ==
  [name |-> row.name, comment |-> row.comment, label_id |-> row.label_id,
   parent_item_id |-> row.parent_item_id,
   image_lg_path |-> row.image_lg_path, image_sm_path |-> row.image_sm_path]

\* schemas.ItemUpdate; Item has no image_path, the field keeps its default
ItemUpdate(row) ==
  [name |-> Some(row.name), comment |-> row.comment, label_id |-> row.label_id,
   parent_item_id |-> row.parent_item_id, image_path |-> None]

-----------------------------------------------------------------------------
(* Item handlers *)

\* POST /items/
create_item(name, comment, label_id, parent_item_id, image, dt, resize_ok, commit_ok) ==
  LET upload == HasUpload(image)
      ext == IF upload THEN Suffix(image[1]) ELSE <<>>
      n == uploads + 1
      rowid == NextRowid(DOMAIN items)
      row == [name |-> name, comment |-> comment, label_id |-> label_id,
              parent_item_id |-> parent_item_id, state |-> None,
              image_lg_path |-> IF upload THEN Some(RelPath(OrigFile(n, ext))) ELSE None,
              image_sm_path |-> IF upload THEN Some(RelPath(ResizedFile(n, ext))) ELSE None,
              creation_date |-> now + dt, last_update |-> now + dt]
  IN /\ pc = "serving"
     /\ now + dt <= MaxClock
     /\ now' = now + dt
     /\ req' = [op |-> "create_item", name |-> name, comment |-> comment,
                label_id |-> label_id, parent_item_id |-> parent_item_id, image |-> image]
     /\ UNCHANGED <<pc, tags, item_tags, tables, triggers>>
     /\ unlinked' = {}
     /\ IF upload /\ ext \notin Allowed
          THEN /\ resp' = Err(400, "Invalid file type")
               /\ UNCHANGED <<items, items_fts, files, uploads>>
          ELSE /\ upload => uploads < MaxUploads
               /\ uploads' = IF upload THEN n ELSE uploads
               /\ files' = IF upload THEN StoredFiles(files, n, ext, resize_ok) ELSE files
               /\ IF upload /\ ~resize_ok
                    THEN /\ resp' = Err(500, "resize_image failed")
                         /\ UNCHANGED <<items, items_fts>>
                    ELSE IF commit_ok
                    THEN /\ rowid <= MaxId
                         /\ items' = Put(items, rowid, row)
                         /\ items_fts' = AfterInsert(items_fts, rowid, row)
                         /\ resp' = Ok(ItemCreate(row))
                    ELSE /\ resp' = Err(500, "commit failed")
                         /\ UNCHANGED <<items, items_fts>>

\* A variant of Supplied: every form value is set, None included.
SuppliedAll(row, name, comment, label_id, parent_item_id, lg, sm) ==
  [row EXCEPT !.name = IF name # None THEN name[1] ELSE @,
              !.comment = comment,
              !.label_id = label_id,
              !.parent_item_id = parent_item_id,
              !.image_lg_path = lg,
              !.image_sm_path = sm]

\* the attributes update_item sets: those whose form value is not None
Supplied(row, name, comment, label_id, parent_item_id, lg, sm) ==
  [row EXCEPT !.name = IF name # None THEN name[1] ELSE @,
              !.comment = IF comment # None THEN comment ELSE @,
              !.label_id = IF label_id # None THEN label_id ELSE @,
              !.parent_item_id = IF parent_item_id # None THEN parent_item_id ELSE @,
              !.image_lg_path = IF lg # None THEN lg ELSE @,
              !.image_sm_path = IF sm # None THEN sm ELSE @]

\* the ORM's flush: an UPDATE is emitted only for a net change, and only an
\* emitted UPDATE evaluates last_update's onupdate=func.now() (models.py:28)
Flushed(old, new, t) ==
  IF new = old THEN old ELSE [new EXCEPT !.last_update = t]

\* PUT /items/{item_id}
update_item(item_id, name, comment, label_id, parent_item_id, image, dt, resize_ok, commit_ok) ==
  LET upload == HasUpload(image)
      ext == IF upload THEN Suffix(image[1]) ELSE <<>>
      n == uploads + 1
      lg == IF upload THEN Some(RelPath(OrigFile(n, ext))) ELSE None
      sm == IF upload THEN Some(RelPath(ResizedFile(n, ext))) ELSE None
  IN /\ pc = "serving"
     /\ now + dt <= MaxClock
     /\ now' = now + dt
     /\ req' = [op |-> "update_item", item_id |-> item_id, name |-> name, comment |-> comment,
                label_id |-> label_id, parent_item_id |-> parent_item_id, image |-> image]
     /\ UNCHANGED <<pc, tags, item_tags, tables, triggers>>
     /\ unlinked' = {}
     /\ IF item_id \notin DOMAIN items
          THEN /\ resp' = Err(404, "Item not found")
               /\ UNCHANGED <<items, items_fts, files, uploads>>
          ELSE IF upload /\ ext \notin Allowed
          THEN /\ resp' = Err(400, "Invalid file type")
               /\ UNCHANGED <<items, items_fts, files, uploads>>
          ELSE /\ upload => uploads < MaxUploads
               /\ uploads' = IF upload THEN n ELSE uploads
               /\ files' = IF upload THEN StoredFiles(files, n, ext, resize_ok) ELSE files
               /\ IF upload /\ ~resize_ok
                    THEN /\ resp' = Err(500, "resize_image failed")
                         /\ UNCHANGED <<items, items_fts>>
                    ELSE IF commit_ok
                    THEN LET set == Supplied(items[item_id], name, comment, label_id,
                                             parent_item_id, lg, sm)
                             row == Flushed(items[item_id], set, now + dt)
                         IN /\ items' = [items EXCEPT ![item_id] = row]
                            /\ items_fts' = IF row = items[item_id]
                                              THEN items_fts
                                              ELSE AfterUpdate(items_fts, item_id, row)
                            /\ resp' = Ok(ItemUpdate(row))
                    ELSE /\ resp' = Err(500, "commit failed")
                         /\ UNCHANGED <<items, items_fts>>

\* A variant of ItemTagsAfterItemDelete: the junction table is left alone.
ItemTagsKept(it, item_id) == it

\* Session.delete of an Item: the unit of work loads Item.tags (the tags joined
\* through item_tags) and deletes the item_tags row of each, then the item row
ItemTagsAfterItemDelete(it, item_id) ==
  {r \in it : ~(r[1] = item_id /\ r[2] \in DOMAIN tags)}

\* DELETE /items/{item_id}
delete_item(item_id, commit_ok) ==
  /\ pc = "serving"
  /\ req' = [op |-> "delete_item", item_id |-> item_id]
  /\ UNCHANGED <<pc, tags, tables, triggers, files, uploads, now>>
  /\ IF item_id \notin DOMAIN items
       THEN /\ resp' = Err(404, "Item not found")
            /\ UNCHANGED <<items, items_fts, item_tags>>
       ELSE IF commit_ok
       THEN /\ items' = Drop(items, item_id)
            /\ items_fts' = AfterDelete(items_fts, item_id)
            /\ item_tags' = ItemTagsAfterItemDelete(item_tags, item_id)
            /\ resp' = Reply(200, "")
       ELSE /\ resp' = Err(500, "Internal Server Error")
            /\ UNCHANGED <<items, items_fts, item_tags>>
  /\ unlinked' = item_tags \ item_tags'

-----------------------------------------------------------------------------
(* Read handlers of items *)

\* GET /items/
get_all_items ==
  /\ pc = "serving"
  /\ req' = [op |-> "get_all_items"]
  /\ resp' = Ok([items |-> DOMAIN items])
  /\ UNCHANGED <<pc, items, tags, item_tags, tables, triggers, items_fts, files, uploads, now>>
  /\ unlinked' = {}

\* GET /items/{item_id}
read_item(item_id) ==
  /\ pc = "serving"
  /\ req' = [op |-> "read_item", item_id |-> item_id]
  /\ resp' = IF item_id \in DOMAIN items THEN Ok([item_id |-> item_id]) ELSE Err(404, "Item not found")
  /\ UNCHANGED <<pc, items, tags, item_tags, tables, triggers, items_fts, files, uploads, now>>
  /\ unlinked' = {}

\* GET /items/label/{label_id}: .first() of the items with that label
get_items_by_label(label_id, pick) ==
  LET found == {i \in DOMAIN items : items[i].label_id = Some(label_id)}
  IN /\ pc = "serving"
     /\ req' = [op |-> "get_items_by_label", label_id |-> label_id]
     /\ IF found = {} THEN resp' = Err(404, "Item not found")
                      ELSE pick \in found /\ resp' = Ok([item_id |-> pick])
     /\ UNCHANGED <<pc, items, tags, item_tags, tables, triggers, items_fts, files, uploads, now>>
     /\ unlinked' = {}

\* the filter both children handlers apply: item_id 0 asks for the root level
ParentFilter(item_id) == IF item_id = 0 THEN None ELSE Some(item_id)

Candidates(item_id) == {i \in DOMAIN items : items[i].parent_item_id = ParentFilter(item_id)}

\* count(child_alias.item_id) of the outer join, grouped by Item.item_id
JoinCount(i) == Cardinality({c \in DOMAIN items : items[c].parent_item_id = Some(i)})

\* .scalar() runs the count at once, over every pair (child, parent) of the
\* table: one number, which db.query(Item, children_count) then selects as a
\* literal beside each row
ScalarCount ==
  Cardinality({c \in DOMAIN items :
                 \E p \in DOMAIN items : items[c].parent_item_id = Some(p)})

\* the rows of a children response, as a set (the queries give no order)
ChildrenV2(item_id) == {[item_id |-> i, children_count |-> ScalarCount] : i \in Candidates(item_id)}
ChildrenV1(item_id) == {[item_id |-> i, children_count |-> JoinCount(i)] : i \in Candidates(item_id)}

\* GET /items/children_v2/{item_id}
get_item_children_v2(item_id) ==
  /\ pc = "serving"
  /\ req' = [op |-> "get_item_children_v2", item_id |-> item_id]
  /\ resp' = IF ChildrenV2(item_id) = {}
               THEN Err(404, "No children found for this item")
               ELSE Ok([rows |-> ChildrenV2(item_id)])
  /\ UNCHANGED <<pc, items, tags, item_tags, tables, triggers, items_fts, files, uploads, now>>
  /\ unlinked' = {}

\* GET /items/children/{item_id}
get_item_children(item_id) ==
  /\ pc = "serving"
  /\ req' = [op |-> "get_item_children", item_id |-> item_id]
  /\ resp' = IF ChildrenV1(item_id) = {}
               THEN Err(404, "No children found for this item")
               ELSE Ok([rows |-> ChildrenV1(item_id)])
  /\ UNCHANGED <<pc, items, tags, item_tags, tables, triggers, items_fts, files, uploads, now>>
  /\ unlinked' = {}

-----------------------------------------------------------------------------
(* Tags *)

\* db.query(Item).join(Item.tags).filter(Tag.tag_name == tag_name)
ItemsByTag(tag_name) ==
  {i \in DOMAIN items : \E t \in DOMAIN tags : <<i, t>> \in item_tags /\ tags[t] = tag_name}

ByTagResponse(tag_name) ==
  IF ItemsByTag(tag_name) = {} THEN Err(404, "Item not found") ELSE Ok([items |-> ItemsByTag(tag_name)])

\* GET /items/{tag_name}
get_items_by_tag(tag_name) ==
  /\ pc = "serving"
  /\ req' = [op |-> "get_items_by_tag", tag_name |-> tag_name]
  /\ resp' = ByTagResponse(tag_name)
  /\ UNCHANGED <<pc, items, tags, item_tags, tables, triggers, items_fts, files, uploads, now>>
  /\ unlinked' = {}

\* POST /tags/
create_tag(tag_name, commit_ok) ==
  LET tag_id == NextRowid(DOMAIN tags)
  IN /\ pc = "serving"
     /\ req' = [op |-> "create_tag", tag_name |-> tag_name]
     /\ IF commit_ok
          THEN /\ tag_id <= MaxId
               /\ tags' = Put(tags, tag_id, tag_name)
               /\ resp' = Ok([tag_id |-> tag_id])
          ELSE /\ resp' = Err(500, "Internal Server Error")
               /\ UNCHANGED tags
     /\ UNCHANGED <<pc, items, item_tags, tables, triggers, items_fts, files, uploads, now>>
     /\ unlinked' = {}

\* A variant of WithoutTag: the junction rows of the item with that id go.
WithoutItem(it, tag_id) == {r \in it : r[1] # tag_id}

\* the bulk DELETE of delete_tag on the junction table
WithoutTag(it, tag_id) == {r \in it : r[2] # tag_id}

\* DELETE /tags/{tag_id}: the junction rows go first, within the transaction;
\* the 404 leaves it uncommitted and get_db's close rolls it back
delete_tag(tag_id, commit_ok) ==
  /\ pc = "serving"
  /\ req' = [op |-> "delete_tag", tag_id |-> tag_id,
             tag_name |-> IF tag_id \in DOMAIN tags THEN Some(tags[tag_id]) ELSE None]
  /\ IF tag_id \notin DOMAIN tags
       THEN /\ resp' = Err(404, "Tag not found")
            /\ UNCHANGED <<tags, item_tags>>
       ELSE IF commit_ok
       THEN /\ item_tags' = WithoutTag(item_tags, tag_id)
            /\ tags' = Drop(tags, tag_id)
            /\ resp' = Reply(200, "Tag deleted")
       ELSE /\ resp' = Err(500, "Internal Server Error")
            /\ UNCHANGED <<tags, item_tags>>
  /\ UNCHANGED <<pc, items, tables, triggers, items_fts, files, uploads, now>>
  /\ unlinked' = item_tags \ item_tags'

-----------------------------------------------------------------------------
(* Full-text search *)

\* str.lower, and the case folding of the unicode61 tokenizer
Lower(c) == IF c = "A" THEN "a" ELSE IF c = "B" THEN "b" ELSE c

Fold(s) == [i \in 1..Len(s) |-> Lower(s[i])]

\* str.strip() == ""
IsBlank(s) == \A i \in 1..Len(s) : s[i] = " "

\* the tokens of a text: its maximal runs of letters, case-folded
RECURSIVE Tokens(_)
Tokens(s) ==
  IF s = <<>> THEN <<>>
  ELSE IF Head(s) = " " THEN Tokens(Tail(s))
  ELSE LET stops == {i \in 1..Len(s) : s[i] = " "}
           n == IF stops = {} THEN Len(s) + 1 ELSE CHOOSE i \in stops : \A j \in stops : i <= j
       IN <<Fold(SubSeq(s, 1, n - 1))>> \o Tokens(SubSeq(s, n, Len(s)))

\* the tokens of one row of the index, over both columns
DocTokens(doc) == Tokens(doc.name) \o (IF doc.comment = None THEN <<>> ELSE Tokens(doc.comment[1]))

IsPrefix(p, t) == Len(p) <= Len(t) /\ SubSeq(t, 1, Len(p)) = p

\* the phrase hits of the prefix query term* in a row
Hits(doc, term) == Cardinality({i \in 1..Len(DocTokens(doc)) : IsPrefix(term, DocTokens(doc)[i])})

DocLen(doc) == Len(DocTokens(doc))

RECURSIVE TotalLen(_, _)
TotalLen(fts, ids) ==
  IF ids = {} THEN 0
  ELSE LET r == CHOOSE x \in ids : TRUE IN DocLen(fts[r]) + TotalLen(fts, ids \ {r})

\* FTS5's bm25() of a row for a one-phrase query is
\*   -idf * f * (k1 + 1) / (f + k1 * (1 - b + b * D / avgdl)),  k1 = 1.2, b = 0.75,
\* with idf > 0 the same for every row (FTS5 raises a non-positive idf to
\* 1e-6), f the hits, D the row's tokens, avgdl = T / N over the index.  With
\* the constant factor idf * (k1 + 1) left out this is -num / den for
\*   num = 10 T f,  den = 10 T f + 3 (T + 3 D N).
Bm25(fts, r, term) ==
  LET T == TotalLen(fts, DOMAIN fts)
      N == Cardinality(DOMAIN fts)
      f == Hits(fts[r], term)
      D == DocLen(fts[r])
  IN [num |-> 10 * T * f, den |-> 10 * T * f + 3 * (T + 3 * D * N)]

\* bm25 of x below bm25 of y: x is the better match
Bm25Less(x, y) == x.num * y.den > y.num * x.den

\* i.rowid = items_fts.rowid WHERE items_fts MATCH 'term*'
Matches(term) == {r \in DOMAIN items \cap DOMAIN items_fts : Hits(items_fts[r], term) > 0}

\* ORDER BY bm25(items_fts) DESC: no row is followed by one of a greater bm25
OrderedDesc(order, term) ==
  \A i, j \in 1..Len(order) :
    i < j => ~Bm25Less(Bm25(items_fts, order[i], term), Bm25(items_fts, order[j], term))

Orders(S) == {o \in [1..Cardinality(S) -> S] : \A i, j \in 1..Cardinality(S) : i # j => o[i] # o[j]}

\* GET /search/ for a query of letters and spaces with at most one term.
\* query + "*" is a syntax error of FTS5 when the star follows a space.
search_items(query) ==
  LET lowered == Fold(query)
      terms == Tokens(lowered)
  IN /\ pc = "serving"
     /\ Len(Tokens(query)) <= 1
     /\ req' = [op |-> "search_items", query |-> query]
     /\ IF IsBlank(query)
          THEN resp' = Err(400, "Query parameter cannot be empty")
          ELSE IF query[Len(query)] = " "
          THEN resp' = Err(500, "Internal Server Error")
          ELSE \E order \in Orders(Matches(terms[1])) :
                 /\ OrderedDesc(order, terms[1])
                 /\ resp' = Ok([hits |-> order])
     /\ UNCHANGED <<pc, items, tags, item_tags, tables, triggers, items_fts, files, uploads, now>>
     /\ unlinked' = {}

-----------------------------------------------------------------------------
(* Inputs and stored databases of the specifications *)

TxtAb == <<"a", "b">>
TxtAbAb == <<"a", "b", " ", "A", "b">>
TxtB == <<"b">>

PngName == <<"x", ".", "p", "n", "g">>
JpgName == <<"x", ".", "j", "p", "g">>
JpegName == <<"x", ".", "j", "p", "e", "g">>
GifName == <<"x", ".", "g", "i", "f">>
UpperName == <<"x", ".", "P", "N", "G">>
BareName == <<"p", "n", "g">>
DotName == <<".", "p", "n", "g">>
TrailName == <<"x", ".">>

FileNames == {<<>>, PngName, JpgName, JpegName, GifName, UpperName, BareName, DotName, TrailName}
Images == {None} \cup {Some(f) : f \in FileNames}

Queries == {<<>>, <<" ">>, <<"a">>, <<"A", "b">>, <<"b">>, <<" ", "a">>, <<"a", " ">>}

\* the tables init_db creates (models.py:62-63)
MappedTables == {"items", "tags", "item_tags", "labels", "states", "events"}
FtsTriggers == {"items_ai", "items_au", "items_ad"}

\* a row stored by an earlier run, at time 0
Row(name, comment, label_id, parent_item_id) ==
  [name |-> name, comment |-> comment, label_id |-> label_id,
   parent_item_id |-> parent_item_id, state |-> None,
   image_lg_path |-> None, image_sm_path |-> None,
   creation_date |-> 0, last_update |-> 0]

Indexed(its) == [r \in DOMAIN its |-> FtsRow(its[r])]

InitProcess ==
  /\ pc = "boot"
  /\ files = {}
  /\ uploads = 0
  /\ now = 0
  /\ unlinked = {}
  /\ req = [op |-> "none"]
  /\ resp = [status |-> 0, detail |-> ""]

\* the index of a database file: never created yet, or created by an earlier
\* run of this program and kept by its triggers since
InitIndex ==
  \/ /\ tables = MappedTables
     /\ triggers = {}
     /\ items_fts = << >>
  \/ /\ tables = MappedTables \cup {"items_fts"}
     /\ triggers = FtsTriggers
     /\ items_fts = Indexed(items)

-----------------------------------------------------------------------------
(* Spec: the item handlers over a database file that may hold a row *)

StoredItems == { << >>, <<Row(TxtAbAb, None, None, None)>> }

Init ==
  /\ InitProcess
  /\ items \in StoredItems
  /\ tags = << >>
  /\ item_tags = {}
  /\ InitIndex

Next ==
  \/ create_fts_search_table
  \/ \E label_id \in {None, Some(1)}, parent_item_id \in {None, Some(1), Some(2)},
        commit_ok \in BOOLEAN :
       create_item(TxtAb, None, label_id, parent_item_id, None, 0, TRUE, commit_ok)
  \/ \E item_id \in 1..MaxId, name \in {None, Some(TxtAbAb)}, parent_item_id \in {None, Some(2)} :
       update_item(item_id, name, None, None, parent_item_id, None, 0, TRUE, TRUE)
  \/ \E item_id \in 1..MaxId, commit_ok \in BOOLEAN : delete_item(item_id, commit_ok)
  \/ get_all_items
  \/ \E item_id \in 1..MaxId : read_item(item_id)
  \/ \E label_id \in 1..2, pick \in 1..MaxId : get_items_by_label(label_id, pick)
  \/ \E item_id \in 0..MaxId : get_item_children_v2(item_id)
  \/ \E item_id \in 0..MaxId : get_item_children(item_id)
  \/ \E query \in Queries : search_items(query)

Spec == Init /\ [][Next]_vars

-----------------------------------------------------------------------------
(* Properties of Spec *)

\* C4 (as claimed): once create_fts_search_table has run, items_fts holds
\* exactly one row per row of items, with the same rowid, name and comment,
\* the rows stored before the index was created included.
C4_IndexMirrorsItems ==
  pc = "serving" =>
    /\ DOMAIN items_fts = DOMAIN items
    /\ \A r \in DOMAIN items :
         items_fts[r].name = items[r].name /\ items_fts[r].comment = items[r].comment

\* C5 (as claimed): a search that answers lists the better match first: no
\* returned row is followed by a row whose bm25 is smaller (better).
C5_MostRelevantFirst ==
  (req.op = "search_items" /\ resp.status = 200) =>
    LET term == Tokens(Fold(req.query))[1]
        order == resp.body.hits
    IN \A i, j \in 1..Len(order) :
         i < j => ~Bm25Less(Bm25(items_fts, order[j], term), Bm25(items_fts, order[i], term))

\* C6 (as claimed): on both children endpoints a stored item without children
\* and an item id that is not stored (0, the root level, aside) get the same
\* answer, 404 "No children found for this item", and nothing stored changes.
C6_LeafAndUnknownAlike ==
  [][(/\ req'.op \in {"get_item_children", "get_item_children_v2"}
      /\ req'.item_id # 0
      /\ \/ req'.item_id \notin DOMAIN items
         \/ \A c \in DOMAIN items : items[c].parent_item_id # Some(req'.item_id))
     => /\ resp'.status = 404
        /\ resp'.detail = "No children found for this item"
        /\ UNCHANGED <<items, tags, item_tags, items_fts, files>>]_vars

\* C7 (as claimed): both children endpoints answer with exactly the items
\* whose parent is the requested id (None for 0), each with the number of
\* stored items whose parent it is.
C7_ChildrenWithOwnCounts ==
  (req.op \in {"get_item_children", "get_item_children_v2"} /\ resp.status = 200) =>
    LET wanted == IF req.item_id = 0 THEN None ELSE Some(req.item_id)
    IN resp.body.rows =
         {[item_id |-> i,
           children_count |-> Cardinality({c \in DOMAIN items : items[c].parent_item_id = Some(i)})] :
            i \in {x \in DOMAIN items : items[x].parent_item_id = wanted}}

\* C9 (as claimed): every stored parent_item_id is None or the id of a stored item.
C9_ParentsExist ==
  \A i \in DOMAIN items :
    items[i].parent_item_id = None \/ items[i].parent_item_id[1] \in DOMAIN items

-----------------------------------------------------------------------------
(* SpecUpload: create_item and update_item with uploads, over a new database *)

InitUpload ==
  /\ InitProcess
  /\ items = << >>
  /\ tags = << >>
  /\ item_tags = {}
  /\ InitIndex

NextUpload ==
  \/ create_fts_search_table
  \/ \E image \in Images, resize_ok \in BOOLEAN, commit_ok \in BOOLEAN :
       create_item(TxtAb, None, None, None, image, 0, resize_ok, commit_ok)
  \/ \E item_id \in 1..MaxId, image \in Images, resize_ok \in BOOLEAN, commit_ok \in BOOLEAN :
       update_item(item_id, None, None, None, None, image, 0, resize_ok, commit_ok)

SpecUpload == InitUpload /\ [][NextUpload]_vars

\* the file names of Images that are not empty and whose extension is none of
\* ".jpg", ".jpeg", ".png"
RefusedNames == {GifName, UpperName, BareName, DotName, TrailName}
AcceptedNames == {PngName, JpgName, JpegName}

RefusedUpload(r) ==
  /\ r.op \in {"create_item", "update_item"}
  /\ r.image # None
  /\ r.image[1] \in RefusedNames

\* C1 (as claimed): create_item and update_item answer an upload whose
\* extension is not allowed with 400 "Invalid file type" and change neither
\* a row nor the images directory.
C1_RefusedWith400 ==
  [][RefusedUpload(req') =>
       /\ resp'.status = 400
       /\ resp'.detail = "Invalid file type"
       /\ UNCHANGED <<items, items_fts, tags, item_tags, files>>]_vars

\* C1 (amended): such an upload changes neither a row nor the images
\* directory and ends with a client error: 400 "Invalid file type" from
\* create_item and from update_item on a stored item, 404 "Item not found"
\* from update_item on an item_id that is not stored.
C1_RefusedUnchanged ==
  [][RefusedUpload(req') =>
       /\ IF req'.op = "update_item" /\ req'.item_id \notin DOMAIN items
            THEN resp'.status = 404 /\ resp'.detail = "Item not found"
            ELSE resp'.status = 400 /\ resp'.detail = "Invalid file type"
       /\ UNCHANGED <<items, items_fts, tags, item_tags, files>>]_vars

\* C1's case: update_item refused an upload for a stored item that has files
C1_Witness ==
  /\ req.op = "update_item"
  /\ req.image = Some(UpperName)
  /\ req.item_id \in DOMAIN items
  /\ resp.status = 400
  /\ files # {}

\* C10: create_item with an accepted upload writes the original, then the
\* derivative, then inserts and commits: the original is on disk whatever
\* follows, a failed resize leaves no derivative and no row, a failed commit
\* leaves both files and no row (500), and no file is ever removed.
C10_FilesOutliveRollback ==
  [][(req'.op = "create_item" /\ req'.image # None /\ req'.image[1] \in AcceptedNames) =>
       LET new == files' \ files
       IN /\ files \subseteq files'
          /\ \E f \in new : ~f.resized
          /\ resp'.status \in {200, 500}
          /\ resp'.status = 500 => items' = items /\ items_fts' = items_fts
          /\ resp'.detail = "resize_image failed" => \A f \in new : ~f.resized
          /\ resp'.detail = "commit failed" =>
               \E f, g \in new : ~f.resized /\ g.resized /\ f.id = g.id /\ f.ext = g.ext
          /\ resp'.status = 200 =>
               \E r \in DOMAIN items' \ DOMAIN items :
                 /\ items'[r].image_lg_path # None /\ items'[r].image_sm_path # None
                 /\ items'[r].image_lg_path[1].file \in new
                 /\ items'[r].image_sm_path[1].file \in new]_vars

\* C10's case: the commit of a create_item failed after both files were written
C10_Witness ==
  /\ req.op = "create_item"
  /\ req.image = Some(PngName)
  /\ resp.status = 500
  /\ resp.detail = "commit failed"
  /\ items = << >>
  /\ Cardinality(files) = 2

-----------------------------------------------------------------------------
(* SpecUpdate: update_item over two stored rows *)

Stored1 == Row(TxtAb, Some(TxtAb), Some(1), None)
Stored2 == Row(TxtB, None, None, Some(1))

InitUpdate ==
  /\ InitProcess
  /\ items = <<Stored1, Stored2>>
  /\ tags = << >>
  /\ item_tags = {}
  /\ InitIndex

NextUpdate ==
  \/ create_fts_search_table
  \/ \E name \in {None, Some(TxtB)}, comment \in {None, Some(TxtB)},
        label_id \in {None, Some(2)}, parent_item_id \in {None, Some(2)},
        image \in {None, Some(PngName)}, dt \in {0, 1}, commit_ok \in BOOLEAN :
       update_item(1, name, comment, label_id, parent_item_id, image, dt, TRUE, commit_ok)
  \/ \E comment \in {None, Some(TxtB)}, dt \in {0, 1} :
       update_item(MaxId + 1, None, comment, None, None, None, dt, TRUE, TRUE)

SpecUpdate == InitUpdate /\ [][NextUpdate]_vars

Updated(r, rs) == r.op = "update_item" /\ rs.status = 200

\* what the fields a successful update_item names and does not name become
FieldsAsSupplied(old, new, r, written) ==
  /\ new.name = IF r.name # None THEN r.name[1] ELSE old.name
  /\ new.comment = IF r.comment # None THEN r.comment ELSE old.comment
  /\ new.label_id = IF r.label_id # None THEN r.label_id ELSE old.label_id
  /\ new.parent_item_id = IF r.parent_item_id # None THEN r.parent_item_id ELSE old.parent_item_id
  /\ IF r.image # None
       THEN /\ new.image_lg_path # None /\ new.image_lg_path[1].file \in written
            /\ new.image_sm_path # None /\ new.image_sm_path[1].file \in written
       ELSE /\ new.image_lg_path = old.image_lg_path
            /\ new.image_sm_path = old.image_sm_path
  /\ new.state = old.state
  /\ new.creation_date = old.creation_date

OnlyComment(r) ==
  /\ r.comment # None
  /\ r.name = None /\ r.label_id = None /\ r.parent_item_id = None /\ r.image = None

\* C2 (as claimed): a successful update_item overwrites exactly the supplied
\* fields of its row and changes no other row; an update of the comment alone
\* leaves name, label_id and parent_item_id and refreshes last_update to the
\* time of the request.
C2_PartialUpdateRefreshes ==
  [][Updated(req', resp') =>
       LET id == req'.item_id
       IN /\ DOMAIN items' = DOMAIN items
          /\ \A j \in DOMAIN items \ {id} : items'[j] = items[j]
          /\ FieldsAsSupplied(items[id], items'[id], req', files' \ files)
          /\ OnlyComment(req') => items'[id].last_update = now']_vars

\* C2 (amended): a successful update_item overwrites exactly the supplied
\* fields of its row and changes no other row; last_update becomes the time
\* of the request when a supplied value differs from the stored one, and
\* stays as it was when none does (no UPDATE is issued then).
C2_PartialUpdate ==
  [][Updated(req', resp') =>
       LET id == req'.item_id
           old == items[id]
           new == items'[id]
           same == [new EXCEPT !.last_update = old.last_update] = old
       IN /\ DOMAIN items' = DOMAIN items
          /\ \A j \in DOMAIN items \ {id} : items'[j] = items[j]
          /\ FieldsAsSupplied(old, new, req', files' \ files)
          /\ new.last_update = IF same THEN old.last_update ELSE now'
          /\ old.last_update <= new.last_update]_vars

\* C2's case: the comment alone was updated, later than the row was created
C2_Witness ==
  /\ Updated(req, resp)
  /\ OnlyComment(req)
  /\ items[1].comment = Some(TxtB)
  /\ items[1].name = Stored1.name
  /\ items[1].last_update = now
  /\ items[1].creation_date < now
  /\ items[2] = Stored2

-----------------------------------------------------------------------------
(* SpecTags: the tag handlers and delete_item over stored tags and links *)

StoredTags == { << >>, <<"t">>, <<"t", "t">>, <<"t", "u">> }

InitTags ==
  /\ InitProcess
  /\ items = <<Stored1, Stored2>>
  /\ tags \in StoredTags
  /\ item_tags \in SUBSET ((DOMAIN items) \X (DOMAIN tags))
  /\ InitIndex

NextTags ==
  \/ create_fts_search_table
  \/ \E tag_name \in {"t", "u"}, commit_ok \in BOOLEAN : create_tag(tag_name, commit_ok)
  \/ \E tag_id \in 1..MaxId, commit_ok \in BOOLEAN : delete_tag(tag_id, commit_ok)
  \/ \E item_id \in 1..MaxId, commit_ok \in BOOLEAN : delete_item(item_id, commit_ok)
  \/ \E tag_name \in {"t", "u"} : get_items_by_tag(tag_name)

SpecTags == InitTags /\ [][NextTags]_vars

TagDeleted(r, rs) == r.op = "delete_tag" /\ rs.status = 200

\* what a successful delete_tag leaves: the tag row gone, no link to it
TagGone ==
  /\ req'.tag_id \notin DOMAIN tags'
  /\ \A t \in DOMAIN tags \ {req'.tag_id} : t \in DOMAIN tags' /\ tags'[t] = tags[t]
  /\ item_tags' = {r \in item_tags : r[2] # req'.tag_id}
  /\ items' = items

LookupAfterDelete ==
  /\ TagDeleted(req, resp)
  /\ req'.op = "get_items_by_tag"
  /\ req'.tag_name = req.tag_name[1]

\* C3 (as claimed): a successful delete_tag leaves no item_tags row with its
\* tag_id and no tag row, and the next get_items_by_tag with the tag's name
\* answers 404.
C3_LookupNotFound ==
  [][/\ TagDeleted(req', resp') => TagGone
     /\ LookupAfterDelete => resp'.status = 404]_vars

\* C3 (amended): a successful delete_tag leaves no item_tags row with its
\* tag_id and no tag row; the next get_items_by_tag with the tag's name answers
\* 404 unless another tag of that name is linked to a stored item, and then it
\* answers with the items linked to the tags of that name.
C3_LookupOfNamesakes ==
  [][/\ TagDeleted(req', resp') => TagGone
     /\ LookupAfterDelete =>
          LET linked == {i \in DOMAIN items :
                           \E t \in DOMAIN tags : tags[t] = req'.tag_name /\ <<i, t>> \in item_tags}
          IN IF linked = {}
               THEN resp'.status = 404 /\ resp'.detail = "Item not found"
               ELSE resp'.status = 200 /\ resp'.body.items = linked]_vars

\* C3's case: a tag with links was deleted while a linked namesake remains
C3_Witness ==
  /\ TagDeleted(req, resp)
  /\ unlinked # {}
  /\ \E t \in DOMAIN tags, i \in DOMAIN items : tags[t] = req.tag_name[1] /\ <<i, t>> \in item_tags

ItemDeleted(r, rs) == r.op = "delete_item" /\ rs.status = 200

ItemRowGone ==
  /\ DOMAIN items' = DOMAIN items \ {req'.item_id}
  /\ \A j \in DOMAIN items' : items'[j] = items[j]
  /\ tags' = tags

DeleteOfUnknown ==
  (req'.op = "delete_item" /\ req'.item_id \notin DOMAIN items) =>
    /\ resp'.status = 404
    /\ UNCHANGED <<items, items_fts, tags, item_tags, files>>

\* C8 (as claimed): a successful delete_item removes the item's row and leaves
\* every item_tags row, those of the deleted item included; on an unknown id
\* it answers 404 and changes nothing.
C8_LinksSurvive ==
  [][/\ ItemDeleted(req', resp') => ItemRowGone /\ item_tags' = item_tags
     /\ DeleteOfUnknown]_vars

\* C8 (amended): a successful delete_item removes the item's row and, as
\* delete_tag does for a tag, the item_tags rows that link the item to a stored
\* tag; the rows of other items stay; on an unknown id it answers 404 and
\* changes nothing.
C8_LinksGoWithItem ==
  [][/\ ItemDeleted(req', resp') =>
          /\ ItemRowGone
          /\ item_tags' = {r \in item_tags : ~(r[1] = req'.item_id /\ r[2] \in DOMAIN tags)}
     /\ DeleteOfUnknown]_vars

\* C8's case: an item with links was deleted and links of another item remain
C8_Witness ==
  /\ ItemDeleted(req, resp)
  /\ unlinked # {}
  /\ item_tags # {}

====
